---- MODULE Spec2Model ----
(***************************************************************************)
(* Model of the BLS dataset ingestion of FoodNutriSync:                    *)
(*   app/main.py            replace_bls_dataset  (PUT /admin/bls-dataset)  *)
(*   app/services/bls_service.py                                           *)
(*                          BLSService.upload_data,                        *)
(*                          BLSService._bulk_upsert_with_counts,           *)
(*                          BLSDataValidator.validate_dataframe,           *)
(*                          BLSDataValidator._extract_nutrients            *)
(*   app/models.py          BLSNutrition (table constraints)               *)
(*   app/auth.py            require_admin, get_current_user,               *)
(*                          extract_token_from_request,                    *)
(*                          JWTAuth.validate_token                         *)
(*                                                                         *)
(* Text is modelled as sequences of one-character strings, an optional     *)
(* value as a set with at most one element ({} is None / NULL / NaN), a    *)
(* nutrient value as an integer number of thousandths (Numeric(10, 3)).    *)
(***************************************************************************)
EXTENDS Integers, Sequences, FiniteSets, TLC

(***************************************************************************)
(* Bounds of the model.  batch_size is 1000 in bls_service.py:59 and the   *)
(* error list is cut at 10 in bls_service.py:56,77; both are scaled down   *)
(* so that files of MaxRows rows span several batches and overflow the     *)
(* error list.                                                             *)
(***************************************************************************)
MaxRows == 3
batch_size == 2
ErrLimit == 1

None == {}
Some(v) == {v}
TheVal(o) == CHOOSE v \in o : TRUE

Min(a, b) == IF a < b THEN a ELSE b

(***************************************************************************)
(* Characters                                                              *)
(***************************************************************************)
AsciiDigits == {"0", "1", "2", "3", "4", "5", "6", "7", "8", "9"}
\* a decimal digit outside ASCII (ARABIC-INDIC DIGIT THREE); category Nd
ArabicThree == "U+0663"
UnicodeDigits == AsciiDigits \cup {ArabicThree}
LettersBY == {"B", "C", "D", "E", "F", "G", "H", "I", "J", "K", "L", "M",
              "N", "O", "P", "Q", "R", "S", "T", "U", "V", "W", "X", "Y"}
Whitespace == {" "}

DigitVal(ch) ==
  CASE ch = "0" -> 0 [] ch = "1" -> 1 [] ch = "2" -> 2 [] ch = "3" -> 3
    [] ch = "4" -> 4 [] ch = "5" -> 5 [] ch = "6" -> 6 [] ch = "7" -> 7
    [] ch = "8" -> 8 [] ch = "9" -> 9

(***************************************************************************)
(* str.strip(): drop leading and trailing whitespace                       *)
(***************************************************************************)
RECURSIVE lstrip(_)
lstrip(s) ==
  IF s = <<>> THEN <<>>
  ELSE IF Head(s) \in Whitespace THEN lstrip(Tail(s)) ELSE s

RECURSIVE rstrip(_)
rstrip(s) ==
  IF s = <<>> THEN <<>>
  ELSE IF s[Len(s)] \in Whitespace THEN rstrip(SubSeq(s, 1, Len(s) - 1)) ELSE s

strip(s) == rstrip(lstrip(s))

(***************************************************************************)
(* BLS_PATTERN = re.compile(r'^[B-Y]\d{6}$') applied to a str: \d matches  *)
(* every Unicode decimal digit.  The cell is stripped before the match, so *)
(* the newline that $ tolerates cannot occur.                              *)
(***************************************************************************)
BLS_PATTERN_match(s) ==
  /\ Len(s) = 7
  /\ s[1] \in LettersBY
  /\ \A k \in 2..7 : s[k] \in UnicodeDigits

(***************************************************************************)
(* Table constraints of BLSNutrition: CHECK "SBLS" ~ '^[B-Y][0-9]{6}$'     *)
(***************************************************************************)
ck_bls_number_format(s) ==
  /\ Len(s) = 7
  /\ s[1] \in LettersBY
  /\ \A k \in 2..7 : s[k] \in AsciiDigits

(***************************************************************************)
(* Number parsing of _extract_nutrients                                    *)
(***************************************************************************)
Contains(s, ch) == \E k \in 1..Len(s) : s[k] = ch

RECURSIVE Remove(_, _)
Remove(s, ch) ==
  IF s = <<>> THEN <<>>
  ELSE IF Head(s) = ch THEN Remove(Tail(s), ch)
       ELSE <<Head(s)>> \o Remove(Tail(s), ch)

Replace(s, from, to) == [k \in 1..Len(s) |-> IF s[k] = from THEN to ELSE s[k]]

\* variant: every comma becomes a point, points are kept
NormalizeNumberCommaOnly(s) == Replace(s, ",", ".")

\* German format 1.234,56 -> 1234.56, otherwise decimal comma -> point
NormalizeNumber(s) ==
  IF Contains(s, ".") /\ Contains(s, ",")
  THEN Replace(Remove(s, "."), ",", ".")
  ELSE Replace(s, ",", ".")

RECURSIVE IntOf(_)
IntOf(s) ==
  IF s = <<>> THEN 0
  ELSE IntOf(SubSeq(s, 1, Len(s) - 1)) * 10 + DigitVal(s[Len(s)])

DotPos(s) == CHOOSE k \in 1..Len(s) : s[k] = "."

\* float(str_value) for plain decimal literals: an optional sign, digits
\* with at most one point and at least one digit; anything else raises
\* ValueError (None).  The value is kept in thousandths (the cells of the
\* model have at most three decimals and no exponent, "inf" or "nan").
ParseFloat(s) ==
  LET signed == s # <<>> /\ s[1] \in {"+", "-"}
      body   == IF signed THEN Tail(s) ELSE s
      dots   == {k \in 1..Len(body) : body[k] = "."}
      ok     == /\ \A k \in 1..Len(body) : body[k] \in AsciiDigits \cup {"."}
                /\ Cardinality(dots) <= 1
                /\ \E k \in 1..Len(body) : body[k] \in AsciiDigits
      ip     == IF dots = {} THEN body ELSE SubSeq(body, 1, DotPos(body) - 1)
      fp     == IF dots = {} THEN <<>>
                ELSE SubSeq(body, DotPos(body) + 1, Len(body))
      milli  == IntOf(ip) * 1000 + IntOf(SubSeq(fp \o <<"0", "0", "0">>, 1, 3))
  IN  IF ~ok THEN None
      ELSE Some(IF signed /\ s[1] = "-" THEN 0 - milli ELSE milli)

(***************************************************************************)
(* Uploaded table.  A file is [hdr, rows]: hdr is the set of column names  *)
(* of the header line, a row gives one cell (text) per column; a cell of a *)
(* column that is not in hdr is never read.  pd.read_csv(dtype=str) turns  *)
(* an empty cell into NaN, modelled by the empty text.                     *)
(***************************************************************************)
Columns == {"SBLS", "ST", "STE", "GCAL"}
NumericColumns == {"GCAL"}

isna(cell) == cell = <<>>

\* variant: a negative value is kept
ExtractNutrientKeepNegative(row, hdr, col) ==
  IF col \in hdr /\ ~isna(row[col]) /\ strip(row[col]) # <<>>
  THEN ParseFloat(NormalizeNumber(strip(row[col])))
  ELSE None

\* _extract_nutrients for the numeric column col of row
ExtractNutrient(row, hdr, col) ==
  IF col \in hdr /\ ~isna(row[col]) /\ strip(row[col]) # <<>>
  THEN LET v == ParseFloat(NormalizeNumber(strip(row[col])))
       IN  IF v # None /\ TheVal(v) >= 0 THEN v ELSE None
  ELSE None

\* the text columns ST and STE of validate_dataframe
ExtractName(row, hdr, col) ==
  IF col \in hdr /\ ~isna(row[col]) /\ strip(row[col]) # <<>>
  THEN Some(strip(row[col]))
  ELSE None

\* One iteration of the loop of validate_dataframe on row number row_num:
\* either a record (a key is present iff its value is not None) or an error.
ValidateRow(row, hdr, row_num) ==
  LET bls_number == strip(IF "SBLS" \in hdr THEN row.SBLS ELSE <<>>)
      st   == ExtractName(row, hdr, "ST")
      ste  == ExtractName(row, hdr, "STE")
      gcal == ExtractNutrient(row, hdr, "GCAL")
      has_valid_data == st # None \/ ste # None \/ gcal # None
  IN  IF bls_number = <<>> \/ ~BLS_PATTERN_match(bls_number)
      THEN [ok |-> FALSE,
            error |-> [row |-> row_num, msg |-> "Invalid BLS number",
                       value |-> bls_number]]
      ELSE IF has_valid_data
      THEN [ok |-> TRUE,
            record |-> [SBLS |-> bls_number, ST |-> st, STE |-> ste,
                        GCAL |-> gcal]]
      ELSE [ok |-> FALSE,
            error |-> [row |-> row_num,
                       msg |-> "No valid data beyond BLS number",
                       value |-> <<>>]]

RECURSIVE ValidateFrom(_, _, _)
ValidateFrom(rows, hdr, row_num) ==
  IF row_num > Len(rows) THEN [valid_records |-> <<>>, errors |-> <<>>]
  ELSE LET r    == ValidateRow(rows[row_num], hdr, row_num)
           rest == ValidateFrom(rows, hdr, row_num + 1)
       IN  IF r.ok
           THEN [valid_records |-> <<r.record>> \o rest.valid_records,
                 errors |-> rest.errors]
           ELSE [valid_records |-> rest.valid_records,
                 errors |-> <<r.error>> \o rest.errors]

\* validate_dataframe(df): enumerate(df.iterrows(), start=1)
validate_dataframe(df) == ValidateFrom(df.rows, df.hdr, 1)

\* main.py: df.dropna(subset=['SBLS']); df[df['SBLS'].str.strip() != '']
RECURSIVE RowsWithSBLS(_)
RowsWithSBLS(rows) ==
  IF rows = <<>> THEN <<>>
  ELSE IF isna(Head(rows).SBLS) \/ strip(Head(rows).SBLS) = <<>>
       THEN RowsWithSBLS(Tail(rows))
       ELSE <<Head(rows)>> \o RowsWithSBLS(Tail(rows))

DropEmptyRows(file) == [hdr |-> file.hdr, rows |-> RowsWithSBLS(file.rows)]

(***************************************************************************)
(* The table bls_nutrition.  store maps each stored code to its row        *)
(* [ST, STE, GCAL]; a column holding NULL is None.                         *)
(***************************************************************************)
DataColumns == Columns \ {"SBLS"}

\* record.keys(): SBLS and the columns the row supplied
Keys(record) == {"SBLS"} \cup {c \in DataColumns : record[c] # None}

\* input_cols / update_cols of _bulk_upsert_with_counts
input_cols(records) == UNION {Keys(records[k]) : k \in 1..Len(records)}
update_cols(records) == input_cols(records) \ {"SBLS"}

\* variant: the column "ST" is nullable
StatementRejectedNullableST(records) ==
  \/ \E k \in 1..Len(records) : ~ck_bls_number_format(records[k].SBLS)
  \/ \E j, k \in 1..Len(records) : j # k /\ records[j].SBLS = records[k].SBLS

\* Conditions under which PostgreSQL rejects the INSERT ... ON CONFLICT
\* statement: a proposed row violates NOT NULL on "ST" (models.py:9) or
\* the CHECK on "SBLS" (models.py:168); both are checked on the proposed
\* row before the conflict is arbitrated.  Two proposed rows with the same
\* key make ON CONFLICT DO UPDATE affect a row a second time, which
\* PostgreSQL refuses.
StatementRejected(records) ==
  \/ \E k \in 1..Len(records) : records[k].ST = None
  \/ \E k \in 1..Len(records) : ~ck_bls_number_format(records[k].SBLS)
  \/ \E j, k \in 1..Len(records) : j # k /\ records[j].SBLS = records[k].SBLS

\* variant: the table is cleared of every row that is not in the batch
UpsertClearOthers(st, records) ==
  LET codes  == {records[k].SBLS : k \in 1..Len(records)}
      rowOf(c) == records[CHOOSE k \in 1..Len(records) : records[k].SBLS = c]
  IN  [c \in codes |-> [col \in DataColumns |-> rowOf(c)[col]]]

\* variant: a stored key that conflicts is deleted instead of updated
UpsertDeleteOnConflict(st, records) ==
  LET codes  == {records[k].SBLS : k \in 1..Len(records)}
      rowOf(c) == records[CHOOSE k \in 1..Len(records) : records[k].SBLS = c]
  IN  [c \in (DOMAIN st \ codes) \cup (codes \ DOMAIN st) |->
         IF c \in DOMAIN st THEN st[c]
         ELSE [col \in DataColumns |-> rowOf(c)[col]]]

\* Effect of insert(table).values(records).on_conflict_do_update(
\*   index_elements=[SBLS], set_={col: excluded[col] for col in update_cols})
\* on table contents st: a new key is inserted with the supplied columns
\* (the others NULL); for a stored key every column of update_cols is set
\* to the value proposed for insertion (NULL if the row did not supply it).
\* With no update column the statement is ON CONFLICT DO NOTHING.
Upsert(st, records) ==
  LET codes  == {records[k].SBLS : k \in 1..Len(records)}
      rowOf(c) == records[CHOOSE k \in 1..Len(records) : records[k].SBLS = c]
      ucols  == update_cols(records)
  IN  [c \in DOMAIN st \cup codes |->
         IF c \notin codes THEN st[c]
         ELSE IF c \notin DOMAIN st
              THEN [col \in DataColumns |-> rowOf(c)[col]]
              ELSE [col \in DataColumns |->
                      IF col \in ucols THEN rowOf(c)[col] ELSE st[c][col]]]

\* variant: every row of the batch is reported as inserted
BulkCountsAllAdded(records) == <<Len(records), 0>>

\* return 0, len(filtered_records)
BulkCounts(records) == <<0, Len(records)>>

\* variant: the slice runs one row into the next batch
SliceInclusive(records, i) ==
  SubSeq(records, i + 1, Min(i + batch_size + 1, Len(records)))

\* valid_records[i:i + batch_size]
Slice(records, i) == SubSeq(records, i + 1, Min(i + batch_size, Len(records)))

\* variant: failed counts the truncated list
BLSUploadResponseTruncatedCount(added, updated, errs) ==
  [added |-> added, updated |-> updated,
   failed |-> Min(ErrLimit, Len(errs)),
   errors |-> SubSeq(errs, 1, Min(ErrLimit, Len(errs)))]

\* BLSUploadResponse(added, updated, failed=len(errors), errors=errors[:10])
BLSUploadResponse(added, updated, errs) ==
  [added |-> added, updated |-> updated, failed |-> Len(errs),
   errors |-> SubSeq(errs, 1, Min(ErrLimit, Len(errs)))]

(***************************************************************************)
(* Uploaded files of the model                                             *)
(***************************************************************************)
Code1 == <<"B", "0", "0", "0", "0", "0", "1">>
Code2 == <<"Y", "9", "9", "9", "9", "9", "9">>
BadCode == <<"A", "0", "0", "0", "0", "0", "1">>
Apfel == <<"A", "p", "f", "e", "l">>
Birne == <<"B", "i", "r", "n", "e">>
Apple == <<"A", "p", "p", "l", "e">>

Row(sbls, st, ste, gcal) == [SBLS |-> sbls, ST |-> st, STE |-> ste, GCAL |-> gcal]

RowKinds ==
  { Row(Code1, Apfel, <<>>, <<"5", "2">>),
    Row(Code1, Birne, <<>>, <<>>),
    Row(Code2, <<" ">> \o Apfel, Apple, <<"1", "2", ",", "3">>),
    Row(BadCode, Apfel, <<>>, <<"5", "2">>),
    Row(Code2, <<>>, <<>>, <<"5", "2">>),
    Row(Code1, <<" ">>, <<>>, <<"-", "5">>),
    Row(<<>>, Apfel, <<>>, <<"5", "2">>) }

\* headers: the full header, a header without the ST column, and the
\* single-column header a file with another delimiter is read as
Headers == {Columns, Columns \ {"ST"}, {}}

Blank(row, hdr) == [c \in Columns |-> IF c \in hdr THEN row[c] ELSE <<>>]

SeqsUpTo(S, n) == UNION {[1..k -> S] : k \in 0..n}

\* files of up to MaxRows rows under the full header, of one row less
\* under the other headers
Files ==
  UNION { {[hdr |-> h, rows |-> rs] :
             rs \in SeqsUpTo({Blank(r, h) : r \in RowKinds},
                             IF h = Columns THEN MaxRows ELSE MaxRows - 1)} :
          h \in Headers }

(***************************************************************************)
(* The HTTP request around the file.  ENVIRONMENT is what os.getenv gives  *)
(* while the request is served (None: not set), cookie the value of the    *)
(* auth cookie, authorization the Authorization header split into scheme   *)
(* and credentials, filename the name of the uploaded part, size the       *)
(* length of its content in bytes.  A token is described by what           *)
(* validate_token looks at: the alg of its header, the outcome of          *)
(* get_keys_with_retry and jwt.decode - "ok", "invalid" (signature, exp,   *)
(* iat, iss or aud refused) or "no_key" (no public key to be had) - and    *)
(* the sub and roles of its payload (roles is a list of role names).       *)
(***************************************************************************)
Token(alg, decode, sub, roles) ==
  [alg |-> alg, decode |-> decode, sub |-> sub, roles |-> roles]

Request(env, cookie, authorization, filename, size) ==
  [ENVIRONMENT |-> env, cookie |-> cookie, authorization |-> authorization,
   filename |-> filename, size |-> size]

\* cookie first, then "Authorization: Bearer <token>"
extract_token_from_request(rq) ==
  IF rq.cookie # None THEN rq.cookie
  ELSE IF rq.authorization # None /\ TheVal(rq.authorization).scheme = "Bearer"
       THEN Some(TheVal(rq.authorization).token)
       ELSE None

\* JWTAuth.validate_token outside development mode: an HTTPException
\* raised inside the try block (unsupported algorithm, no key, missing sub)
\* is caught by the trailing "except Exception" and leaves as 500; the
\* errors of jwt.decode leave as 401.
validate_token(token) ==
  IF token.alg # "RS256" THEN [status |-> 500, sub |-> None, roles |-> {}]
  ELSE IF token.decode = "no_key"
  THEN [status |-> 500, sub |-> None, roles |-> {}]
  ELSE IF token.decode # "ok"
  THEN [status |-> 401, sub |-> None, roles |-> {}]
  ELSE IF token.sub = None THEN [status |-> 500, sub |-> None, roles |-> {}]
  ELSE [status |-> 200, sub |-> token.sub, roles |-> token.roles]

DevRoles == {"Integration", "BLS-Data-Reader", "Admin", "Super Admin"}

\* get_current_user: status 200 and the user, or the status of the
\* HTTPException raised
get_current_user(rq) ==
  IF rq.ENVIRONMENT = Some("development")
  THEN [status |-> 200, sub |-> Some("dev_user"), roles |-> DevRoles]
  ELSE LET token == extract_token_from_request(rq)
       IN  IF token = None
           THEN [status |-> 401, sub |-> None, roles |-> {}]
           ELSE validate_token(TheVal(token))

\* variant: any authenticated user passes
require_adminAnyUser(rq) == get_current_user(rq).status

\* require_admin: 200 if the dependency resolves, else the status raised
require_admin(rq) ==
  LET current_user == get_current_user(rq)
  IN  IF current_user.status # 200 THEN current_user.status
      ELSE IF rq.ENVIRONMENT = Some("development") THEN 200
      ELSE IF current_user.roles \cap {"Admin", "Super Admin"} = {} THEN 403
      ELSE 200

\* str.endswith
endswith(s, suffix) ==
  /\ Len(s) >= Len(suffix)
  /\ SubSeq(s, Len(s) - Len(suffix) + 1, Len(s)) = suffix

DotTxt == <<".", "t", "x", "t">>

\* filename = file.filename or "unknown_file"; filename.endswith(".txt")
IsTxt(filename) == endswith(filename, DotTxt)

MAX_UPLOAD == 200 * 1024 * 1024

\* variant: no size limit
TooLargeNever(size) == FALSE

\* len(content) > MAX_UPLOAD
TooLarge(size) == size > MAX_UPLOAD

BlsTxt == <<"b", "l", "s", ".", "t", "x", "t">>

\* the request of the test suite: development environment, no token, a
\* .txt file of a size within the limit (every size in 1..MAX_UPLOAD is
\* treated alike)
DevRequest == Request(Some("development"), None, None, BlsTxt, 1)

NoRequest == Request(None, None, None, <<>>, 0)

(***************************************************************************)
(* State                                                                   *)
(***************************************************************************)
VARIABLES
  request,        \* the HTTP request being served (NoRequest if none)
  fault_seen,     \* the store failed in this request for a reason other
                  \*   than the contents of the batch
  store,          \* committed contents of table bls_nutrition
  tx,             \* uncommitted contents seen by the session, or None
  pc,             \* position of the request: idle, execute, commit,
                  \*   rollback, returned, raised, cancelling, cancelled
  file,           \* the uploaded file of the current (or last) request
  valid_records,  \* upload_data: valid_records
  errors,         \* upload_data: errors
  i,              \* upload_data: loop variable i
  added_total,    \* upload_data: added_total
  updated_total,  \* upload_data: updated_total
  report,         \* the BLSUploadResponse returned, or None
  status,         \* HTTP status of the response, 0 while running
  calls,          \* batches passed to _bulk_upsert_with_counts so far
  results,        \* (added, updated) pairs it returned so far
  storeBefore,    \* store when the request started
  same,           \* the file equals the file of the preceding request,
                  \*   which returned a report
  prevFailed,     \* failed of that preceding report (0 if not same)
  in_transaction, \* session.in_transaction(): the AsyncSession of the
                  \*   request has begun a transaction it has not ended
  sessions,       \* requests served concurrently, each with its own
                  \*   AsyncSession: position, valid_records, loop
                  \*   variable i, rows of the current statement done (k),
                  \*   and the rows written and locked by its transaction
  committed,      \* batches committed by those requests, in commit order
  key_type,       \* JWTAuth._key_type: "none" (None), "jwks" or "pem"
  keys,           \* JWTAuth._keys: kid -> key
  single_key,     \* JWTAuth._single_key, or None
  retry_attempted,\* JWTAuth._retry_attempted
  refresh_task,   \* JWTAuth._refresh_task: a task number, 0 for None
  tasks,          \* the asyncio tasks created for _background_refresh_loop
  lifespan,       \* the startup and shutdown hooks of the application
  validations,    \* the calls of validate_token in progress
  health          \* the requests GET /health in progress

\* the variables of the key management of auth.py
auth == <<key_type, keys, single_key, retry_attempted, refresh_task, tasks,
          lifespan, validations>>

\* the variables of the parts of the program other than the single
\* ingestion request
others == <<sessions, committed, auth, health>>

vars == <<request, fault_seen, store, tx, pc, file, valid_records, errors,
          i, added_total, updated_total, report, status, calls, results,
          storeBefore, same, prevFailed, in_transaction, others>>

EmptyStore == [c \in {} |-> {}]

Sessions == {1, 2}

IdleSession ==
  [pc |-> "idle", valid_records |-> <<>>, i |-> 0, k |-> 0,
   writes |-> EmptyStore]

\* bounds of the key management model
MaxTasks == 3
TaskIds == 1..MaxTasks
Callers == {1, 2}
Probes == {1, 2}

NoKeys == [kid \in {} |-> {}]

\* a task that asyncio.create_task has not created yet
Unborn == [pc |-> "unborn", must_cancel |-> FALSE, last |-> "none"]

IdleValidation ==
  [pc |-> "idle", kid |-> None, signed |-> "none", first_failed |-> FALSE,
   retried |-> 0, result |-> 0]

IdleProbe == [pc |-> "idle", status |-> "none", code |-> 0]

InitOthers ==
  /\ sessions = [s \in Sessions |-> IdleSession]
  /\ committed = <<>>
  /\ key_type = "none"
  /\ keys = NoKeys
  /\ single_key = None
  /\ retry_attempted = FALSE
  /\ refresh_task = 0
  /\ tasks = [id \in TaskIds |-> Unborn]
  /\ lifespan = [pc |-> "down", started |-> FALSE]
  /\ validations = [p \in Callers |-> IdleValidation]
  /\ health = [h \in Probes |-> IdleProbe]

Init ==
  /\ request = NoRequest
  /\ fault_seen = FALSE
  /\ store = EmptyStore
  /\ tx = None
  /\ pc = "idle"
  /\ file = [hdr |-> {}, rows |-> <<>>]
  /\ valid_records = <<>>
  /\ errors = <<>>
  /\ i = 0
  /\ added_total = 0
  /\ updated_total = 0
  /\ report = None
  /\ status = 0
  /\ calls = <<>>
  /\ results = <<>>
  /\ storeBefore = EmptyStore
  /\ same = FALSE
  /\ prevFailed = 0
  /\ in_transaction = FALSE
  /\ InitOthers

Finished == pc \in {"returned", "raised", "cancelled"}

(***************************************************************************)
(* The request ends with an HTTPException of the given status before any   *)
(* row was validated.                                                      *)
(***************************************************************************)
RaiseHTTP(code) ==
  /\ valid_records' = <<>>
  /\ errors' = <<>>
  /\ report' = None
  /\ status' = code
  /\ pc' = "raised"

(***************************************************************************)
(* PUT /admin/bls-dataset up to the first await of upload_data: the        *)
(* dependency require_admin, the file type and size checks, decoding and   *)
(* parsing, dropping the rows without SBLS, validation; the report is      *)
(* returned at once if no row is valid.  Content of length 0 makes         *)
(* pd.read_csv raise EmptyDataError and a header without SBLS makes        *)
(* df.dropna(subset=['SBLS']) raise KeyError; the handler turns both into  *)
(* HTTP 500.                                                               *)
(***************************************************************************)
replace_bls_dataset(rq, f) ==
  /\ request' = rq
  /\ fault_seen' = FALSE
  /\ file' = f
  /\ same' = (pc = "returned" /\ f = file)
  /\ prevFailed' = IF pc = "returned" /\ f = file
                   THEN TheVal(report).failed ELSE 0
  /\ storeBefore' = store
  /\ i' = 0
  /\ added_total' = 0
  /\ updated_total' = 0
  /\ calls' = <<>>
  /\ results' = <<>>
  /\ IF require_admin(rq) # 200 THEN RaiseHTTP(require_admin(rq))
     ELSE IF ~IsTxt(rq.filename) THEN RaiseHTTP(400)
     ELSE IF TooLarge(rq.size) THEN RaiseHTTP(413)
     ELSE IF rq.size = 0 \/ "SBLS" \notin f.hdr THEN RaiseHTTP(500)
     ELSE \E v \in {validate_dataframe(DropEmptyRows(f))} :
              /\ valid_records' = v.valid_records
              /\ errors' = v.errors
              /\ IF v.valid_records = <<>>
                 THEN /\ report' = Some(BLSUploadResponse(0, 0, v.errors))
                      /\ status' = 200
                      /\ pc' = "returned"
                 ELSE /\ report' = None
                      /\ status' = 0
                      /\ pc' = "execute"
  /\ UNCHANGED <<store, tx, in_transaction, others>>

(***************************************************************************)
(* _bulk_upsert_with_counts, await session.execute(upsert_stmt) on the     *)
(* batch valid_records[i:i + batch_size].  fault is a failure that the     *)
(* contents of the batch do not decide in this model: the connection is    *)
(* lost, or the driver refuses to build one VALUES list from records with  *)
(* different keys.  An exception of either kind is handled the same way.   *)
(* The session begins its transaction with the first statement after a     *)
(* commit or rollback, and a failed statement leaves it open until the     *)
(* rollback.                                                               *)
(***************************************************************************)
ExecuteBatch ==
  /\ pc = "execute"
  /\ in_transaction' = TRUE
  /\ LET batch == Slice(valid_records, i)
     IN  /\ calls' = Append(calls, batch)
         /\ \E fault \in BOOLEAN :
              IF fault \/ StatementRejected(batch)
              THEN /\ tx' = None
                   /\ pc' = "rollback"
                   /\ fault_seen' = (fault_seen \/ ~StatementRejected(batch))
              ELSE /\ tx' = Some(Upsert(store, batch))
                   /\ pc' = "commit"
                   /\ UNCHANGED fault_seen
  /\ UNCHANGED <<request, store, file, valid_records, errors, i, added_total,
                 updated_total, report, status, results, storeBefore, same,
                 prevFailed, others>>

(***************************************************************************)
(* await session.commit(); return 0, len(filtered_records); then the rest  *)
(* of the loop body of upload_data and, after the last batch, its return.  *)
(***************************************************************************)
CommitBatch ==
  /\ pc = "commit"
  /\ \E fault \in BOOLEAN :
       IF fault
       THEN /\ pc' = "rollback"
            /\ fault_seen' = TRUE
            /\ UNCHANGED <<store, tx, i, added_total, updated_total, report,
                           status, results, in_transaction>>
       ELSE LET counts == BulkCounts(Slice(valid_records, i))
                a == added_total + counts[1]
                u == updated_total + counts[2]
            IN  /\ UNCHANGED fault_seen
                /\ store' = TheVal(tx)
                /\ tx' = None
                /\ in_transaction' = FALSE
                /\ results' = Append(results, counts)
                /\ added_total' = a
                /\ updated_total' = u
                /\ i' = i + batch_size
                /\ IF i + batch_size >= Len(valid_records)
                   THEN /\ report' = Some(BLSUploadResponse(a, u, errors))
                        /\ status' = 200
                        /\ pc' = "returned"
                   ELSE /\ UNCHANGED <<report, status>>
                        /\ pc' = "execute"
  /\ UNCHANGED <<request, file, valid_records, errors, calls, storeBefore,
                 same, prevFailed, others>>

\* variant: the failure also undoes the batches committed before
RollbackWholeFile ==
  /\ pc = "rollback"
  /\ tx' = None
  /\ in_transaction' = FALSE
  /\ store' = storeBefore
  /\ status' = 500
  /\ pc' = "raised"
  /\ UNCHANGED <<request, fault_seen, file, valid_records, errors, i,
                 added_total, updated_total,
                 report, calls, results, storeBefore, same, prevFailed, others>>

\* variant: the rejected batch is skipped and the loop goes on
RollbackAndContinue ==
  /\ pc = "rollback"
  /\ tx' = None
  /\ in_transaction' = FALSE
  /\ i' = i + batch_size
  /\ IF i + batch_size >= Len(valid_records)
     THEN /\ report' = Some(BLSUploadResponse(added_total, updated_total,
                                              errors))
          /\ status' = 200
          /\ pc' = "returned"
     ELSE /\ UNCHANGED <<report, status>>
          /\ pc' = "execute"
  /\ UNCHANGED <<request, fault_seen, store, file, valid_records, errors,
                 added_total,
                 updated_total, calls, results, storeBefore, same,
                 prevFailed, others>>

\* variant: the exception is re-raised without session.rollback()
RollbackSkipped ==
  /\ pc = "rollback"
  /\ tx' = None
  /\ status' = 500
  /\ pc' = "raised"
  /\ UNCHANGED <<request, fault_seen, store, file, valid_records, errors, i,
                 added_total,
                 updated_total, report, calls, results, storeBefore, same,
                 prevFailed, in_transaction, others>>

(***************************************************************************)
(* except Exception: await session.rollback(); raise - re-raised by        *)
(* upload_data and turned into HTTP 500 by replace_bls_dataset.            *)
(***************************************************************************)
Rollback ==
  /\ pc = "rollback"
  /\ tx' = None
  /\ in_transaction' = FALSE
  /\ status' = 500
  /\ pc' = "raised"
  /\ UNCHANGED <<request, fault_seen, store, file, valid_records, errors, i,
                 added_total,
                 updated_total, report, calls, results, storeBefore, same,
                 prevFailed, others>>

(***************************************************************************)
(* The request is cancelled at one of its awaits.  asyncio.CancelledError  *)
(* is not an Exception, so neither except Exception of                     *)
(* _bulk_upsert_with_counts nor that of upload_data runs: upload_data is   *)
(* left without commit or rollback, and a transaction the session has      *)
(* begun stays open.  Cancelled at execute the statement has not been      *)
(* sent; a statement cancelled on its way has the session in the state of  *)
(* commit or rollback, with nothing committed.                             *)
(***************************************************************************)
Cancel ==
  /\ pc \in {"execute", "commit", "rollback"}
  /\ pc' = "cancelling"
  /\ UNCHANGED <<request, fault_seen, store, tx, file, valid_records, errors,
                 i, added_total,
                 updated_total, report, status, calls, results, storeBefore,
                 same, prevFailed, in_transaction, others>>

(***************************************************************************)
(* get_session: async with SessionLocal() as session ... finally:          *)
(* await session.close() - the cancelled request leaves the dependency,    *)
(* which closes the session and so discards what was not committed.        *)
(***************************************************************************)
CloseSession ==
  /\ pc = "cancelling"
  /\ tx' = None
  /\ in_transaction' = FALSE
  /\ pc' = "cancelled"
  /\ UNCHANGED <<request, fault_seen, store, file, valid_records, errors, i,
                 added_total,
                 updated_total, report, status, calls, results, storeBefore,
                 same, prevFailed, others>>

(***************************************************************************)
(* The response has been sent: the locals of the request are gone and the  *)
(* session is closed; only the table remains.                              *)
(***************************************************************************)
Respond ==
  /\ Finished
  /\ request' = NoRequest
  /\ fault_seen' = FALSE
  /\ pc' = "idle"
  /\ tx' = None
  /\ file' = [hdr |-> {}, rows |-> <<>>]
  /\ valid_records' = <<>>
  /\ errors' = <<>>
  /\ i' = 0
  /\ added_total' = 0
  /\ updated_total' = 0
  /\ report' = None
  /\ status' = 0
  /\ calls' = <<>>
  /\ results' = <<>>
  /\ storeBefore' = EmptyStore
  /\ same' = FALSE
  /\ prevFailed' = 0
  /\ in_transaction' = FALSE
  /\ UNCHANGED <<store, others>>

\* a client uploads a file
Upload == pc = "idle" /\ \E f \in Files : replace_bls_dataset(DevRequest, f)

\* a client that got a report uploads the identical file again
UploadAgain == pc = "returned" /\ replace_bls_dataset(request, file)

Next ==
  \/ Upload
  \/ UploadAgain
  \/ ExecuteBatch
  \/ CommitBatch
  \/ Rollback
  \/ Cancel
  \/ CloseSession
  \/ Respond

Spec == Init /\ [][Next]_vars

(***************************************************************************)
(* Second specification: one request whose single row carries an           *)
(* identifier cell drawn from the variations of two valid codes - every    *)
(* substitution of one character, a character dropped or added, padding    *)
(* with whitespace - over an alphabet with letters inside and outside      *)
(* B..Y, a lower-case letter, ASCII and non-ASCII digits, and other signs. *)
(***************************************************************************)
IdChars == {"A", "B", "Y", "Z", "b", "0", "9", "x", " ", "-", ArabicThree}
IdBases == {Code1, Code2}

IdCells ==
  UNION { {[b EXCEPT ![p] = ch] : p \in 1..Len(b), ch \in IdChars}
          \cup {SubSeq(b, 1, Len(b) - 1), Tail(b), b \o <<"0">>, <<"B">> \o b,
                <<" ">> \o b \o <<" ">>, <<" ">>, <<>>} :
          b \in IdBases }

IdFiles ==
  {[hdr |-> Columns, rows |-> <<Row(id, Apfel, <<>>, <<"5", "2">>)>>] :
     id \in IdCells}

UploadId ==
  pc = "idle" /\ \E f \in IdFiles : replace_bls_dataset(DevRequest, f)

NextId ==
  \/ UploadId
  \/ ExecuteBatch
  \/ CommitBatch
  \/ Rollback
  \/ Cancel
  \/ CloseSession

SpecId == Init /\ [][NextId]_vars

(***************************************************************************)
(* Third specification: one request whose single row has a valid code, a   *)
(* name and a nutrient cell.  The cell is a number written out from its    *)
(* integer digits and its decimals in one of three styles - 1234.56,       *)
(* 1234,56 and 1.234,56 - or one of the cells that carry no usable value.  *)
(***************************************************************************)
IntDigits ==
  { [d |-> <<"0">>, n |-> 0], [d |-> <<"5">>, n |-> 5],
    [d |-> <<"1", "2">>, n |-> 12], [d |-> <<"5", "0">>, n |-> 50],
    [d |-> <<"5", "2">>, n |-> 52], [d |-> <<"1", "0", "0">>, n |-> 100],
    [d |-> <<"1", "2", "3", "4">>, n |-> 1234] }

\* decimals and their value in thousandths; <<>> is "no decimals"
FracDigits ==
  { [d |-> <<>>, m |-> 0], [d |-> <<"0">>, m |-> 0],
    [d |-> <<"5">>, m |-> 500], [d |-> <<"5", "0">>, m |-> 500],
    [d |-> <<"3">>, m |-> 300], [d |-> <<"2", "3">>, m |-> 230],
    [d |-> <<"5", "6">>, m |-> 560] }

NumStyles == {"point", "comma", "german"}

\* thousands separator of the German style
Group(ip) ==
  IF Len(ip) > 3
  THEN SubSeq(ip, 1, Len(ip) - 3) \o <<".">> \o SubSeq(ip, Len(ip) - 2, Len(ip))
  ELSE ip

FmtNumber(ip, fp, style) ==
  CASE style = "point" -> ip \o (IF fp = <<>> THEN <<>> ELSE <<".">> \o fp)
    [] style = "comma" -> ip \o (IF fp = <<>> THEN <<>> ELSE <<",">> \o fp)
    [] style = "german" -> Group(ip) \o (IF fp = <<>> THEN <<>> ELSE <<",">> \o fp)

\* the german style needs decimals: without them 1.234 is a period-decimal
NumberForms ==
  {<<it, ft, style>> \in IntDigits \X FracDigits \X NumStyles :
     style = "german" => ft.d # <<>>}

GoodNumCells ==
  {FmtNumber(x[1].d, x[2].d, x[3]) : x \in NumberForms}
  \cup {<<" ">> \o <<"5", "2">> \o <<" ">>}

\* empty, blank, not a number ("-", "abc", "k.A.", "1,2,3"), negative
BadNumCells ==
  { <<>>, <<" ">>, <<"-">>, <<"a", "b", "c">>, <<"k", ".", "A", ".">>,
    <<"1", ",", "2", ",", "3">>, <<"-", "5">>, <<"-", "5", ",", "2">>,
    <<"-", "0", ".", "5">>, <<"-", "1", ".", "2", "3", "4", ",", "5", "6">> }

NumFiles ==
  {[hdr |-> Columns, rows |-> <<Row(Code1, Apfel, Apple, cell)>>] :
     cell \in GoodNumCells \cup BadNumCells}

UploadNum ==
  pc = "idle" /\ \E f \in NumFiles : replace_bls_dataset(DevRequest, f)

NextNum ==
  \/ UploadNum
  \/ ExecuteBatch
  \/ CommitBatch
  \/ Rollback
  \/ Cancel
  \/ CloseSession

SpecNum == Init /\ [][NextNum]_vars

(***************************************************************************)
(* Fourth specification: uploads one after the other over rows that supply *)
(* different sets of columns for two codes.  Within a file no row supplies *)
(* fewer columns than the row before it, so every batch opens with its     *)
(* sparsest row.                                                           *)
(***************************************************************************)
FrameRows ==
  { Row(Code1, Birne, <<>>, <<>>),
    Row(Code1, Apfel, <<>>, <<"5", "2">>),
    Row(Code2, Birne, <<>>, <<"7">>),
    Row(Code1, Apfel, Apple, <<"1", "2", ",", "3">>),
    Row(Code2, Apfel, Apple, <<"1", "2", ",", "3">>) }

\* the data columns for which a row has a non-blank cell
Supplied(row) == {c \in DataColumns : strip(row[c]) # <<>>}

FrameFiles ==
  {[hdr |-> Columns, rows |-> rs] :
     rs \in {q \in SeqsUpTo(FrameRows, MaxRows) :
               \A k \in 1..(Len(q) - 1) : Supplied(q[k]) \subseteq Supplied(q[k + 1])}}

UploadFrame ==
  pc = "idle" /\ \E f \in FrameFiles : replace_bls_dataset(DevRequest, f)

NextFrame ==
  \/ UploadFrame
  \/ ExecuteBatch
  \/ CommitBatch
  \/ Rollback
  \/ Cancel
  \/ CloseSession
  \/ Respond

SpecFrame == Init /\ [][NextFrame]_vars

(***************************************************************************)
(* Fifth specification: requests that differ in the environment, in the    *)
(* credentials they carry, in the file name and in the size of the         *)
(* content, around a few files.  Content of size 0 is the empty file.      *)
(***************************************************************************)
TokAdmin == Token("RS256", "ok", Some("u1"), {"Admin"})
TokSuper == Token("RS256", "ok", Some("u1"), {"Super Admin", "Integration"})
TokReader == Token("RS256", "ok", Some("u1"), {"BLS-Data-Reader", "Integration"})
TokNoRoles == Token("RS256", "ok", Some("u1"), {})
TokExpired == Token("RS256", "invalid", Some("u1"), {"Admin"})
TokHS256 == Token("HS256", "ok", Some("u1"), {"Admin"})
TokNoKey == Token("RS256", "no_key", Some("u1"), {"Admin"})
TokNoSub == Token("RS256", "ok", None, {"Admin"})

Tokens == {TokAdmin, TokSuper, TokReader, TokNoRoles, TokExpired, TokHS256,
           TokNoKey, TokNoSub}

Header(scheme, token) == Some([scheme |-> scheme, token |-> token])

\* <<cookie, authorization>>
Credentials ==
  {<<None, None>>}
  \cup {<<Some(t), None>> : t \in Tokens}
  \cup {<<None, Header("Bearer", t)>> : t \in {TokAdmin, TokReader, TokExpired}}
  \cup { <<None, Header("Basic", TokAdmin)>>,
         <<Some(TokExpired), Header("Bearer", TokAdmin)>>,
         <<Some(TokAdmin), Header("Bearer", TokExpired)>>,
         <<Some(TokReader), Header("Bearer", TokAdmin)>> }

Environments == {Some("development"), Some("production"), None}

Filenames ==
  { BlsTxt, <<"b", "l", "s", ".", "c", "s", "v">>,
    <<"b", "l", "s", ".", "T", "X", "T">>, <<"t", "x", "t">>, <<>> }

Sizes == {0, 1, MAX_UPLOAD, MAX_UPLOAD + 1}

EmptyFile == [hdr |-> {}, rows |-> <<>>]

GateFiles ==
  { [hdr |-> Columns, rows |-> <<Row(Code1, Apfel, <<>>, <<"5", "2">>)>>],
    [hdr |-> Columns, rows |-> <<Row(Code2, Birne, Apple, <<"7">>),
                                 Row(BadCode, Apfel, <<>>, <<"5", "2">>)>>],
    [hdr |-> {}, rows |-> <<Blank(Row(Code1, Apfel, <<>>, <<"5", "2">>), {})>>] }

UploadGate ==
  /\ pc = "idle"
  /\ \E env \in Environments, cr \in Credentials, name \in Filenames,
        size \in Sizes, f \in GateFiles \cup {EmptyFile} :
          /\ (size = 0) <=> (f = EmptyFile)
          /\ replace_bls_dataset(Request(env, cr[1], cr[2], name, size), f)

NextGate ==
  \/ UploadGate
  \/ ExecuteBatch
  \/ CommitBatch
  \/ Rollback
  \/ Cancel
  \/ CloseSession
  \/ Respond

SpecGate == Init /\ [][NextGate]_vars

(***************************************************************************)
(* Sixth specification: two requests ingest at the same time, each through *)
(* its own AsyncSession, into the one table.  PostgreSQL runs the          *)
(* statement of a batch row by row: a row whose key another transaction    *)
(* has written and not yet committed makes the statement wait for that     *)
(* transaction to end, and the conflict is then arbitrated against the     *)
(* committed row (READ COMMITTED); the locks of a transaction are held up  *)
(* to its commit or rollback.  Two statements that wait for each other are *)
(* a deadlock, which PostgreSQL ends by failing one of them; fault covers  *)
(* it together with every other failure not decided by the batch.          *)
(***************************************************************************)
ConcRows ==
  { Row(Code1, Apfel, <<>>, <<"5", "2">>),
    Row(Code1, Birne, Apple, <<>>),
    Row(Code2, Birne, <<>>, <<"7">>) }

\* files of up to MaxRows rows, no row twice
ConcFiles ==
  {[hdr |-> Columns, rows |-> rs] :
     rs \in {q \in SeqsUpTo(ConcRows, MaxRows) \ {<<>>} :
               \A j, k \in 1..Len(q) : j # k => q[j] # q[k]}}

\* the variables of the single ingestion request but the table
ingestion == <<request, fault_seen, tx, pc, file, valid_records, errors, i,
               added_total, updated_total, report, status, calls, results,
               storeBefore, same, prevFailed, in_transaction>>

\* variant: a statement never waits for the transaction of another session
RowLockedNever(ss, s, c) == FALSE

\* another session has written the row of code c and not yet ended its
\* transaction
RowLocked(ss, s, c) == \E t \in Sessions \ {s} : c \in DOMAIN ss[t].writes

\* contents of the table with the rows written by a transaction put over it
Overlay(st, writes) ==
  [c \in DOMAIN st \cup DOMAIN writes |->
     IF c \in DOMAIN writes THEN writes[c] ELSE st[c]]

\* the handler up to the first await of upload_data, for session s
ConcUpload(s) ==
  \E f \in ConcFiles :
    /\ sessions[s].pc = "idle"
    /\ \E v \in {validate_dataframe(DropEmptyRows(f))} :
         sessions' = [sessions EXCEPT ![s] =
            [pc |-> IF v.valid_records = <<>> THEN "returned" ELSE "execute",
             valid_records |-> v.valid_records, i |-> 0, k |-> 0,
             writes |-> EmptyStore]]
    /\ UNCHANGED <<store, committed, ingestion, auth, health>>

\* await session.execute(upsert_stmt) of session s, one proposed row at a
\* time; after the last row the statement has succeeded unless the batch
\* is one PostgreSQL rejects
ConcExecute(s) ==
  LET me    == sessions[s]
      batch == Slice(me.valid_records, me.i)
  IN  /\ me.pc = "execute"
      /\ \/ sessions' = [sessions EXCEPT ![s].pc = "rollback"]   \* fault
         \/ /\ me.k < Len(batch)
            /\ LET c == batch[me.k + 1].SBLS
               IN  /\ ~RowLocked(sessions, s, c)
                   /\ sessions' = [sessions EXCEPT
                        ![s].k = me.k + 1,
                        ![s].writes =
                           [d \in DOMAIN me.writes \cup {c} |->
                              IF d = c
                              THEN Upsert(Overlay(store, me.writes), batch)[c]
                              ELSE me.writes[d]]]
         \/ /\ me.k = Len(batch)
            /\ sessions' = [sessions EXCEPT ![s].pc =
                  IF StatementRejected(batch) THEN "rollback" ELSE "commit"]
      /\ UNCHANGED <<store, committed, ingestion, auth, health>>

\* await session.commit() of session s and the rest of the loop body
ConcCommit(s) ==
  LET me    == sessions[s]
      batch == Slice(me.valid_records, me.i)
  IN  /\ me.pc = "commit"
      /\ \E fault \in BOOLEAN :
           IF fault
           THEN /\ sessions' = [sessions EXCEPT ![s].pc = "rollback"]
                /\ UNCHANGED <<store, committed>>
           ELSE /\ store' = Overlay(store, me.writes)
                /\ committed' = Append(committed, batch)
                /\ sessions' = [sessions EXCEPT
                     ![s].writes = EmptyStore,
                     ![s].k = 0,
                     ![s].i = me.i + batch_size,
                     ![s].pc = IF me.i + batch_size >= Len(me.valid_records)
                               THEN "returned" ELSE "execute"]
      /\ UNCHANGED <<ingestion, auth, health>>

\* except Exception: await session.rollback(); raise - of session s
ConcRollback(s) ==
  /\ sessions[s].pc = "rollback"
  /\ sessions' = [sessions EXCEPT ![s].writes = EmptyStore,
                                  ![s].pc = "raised"]
  /\ UNCHANGED <<store, committed, ingestion, auth, health>>

NextConc ==
  \E s \in Sessions :
    \/ ConcUpload(s)
    \/ ConcExecute(s)
    \/ ConcCommit(s)
    \/ ConcRollback(s)

SpecConc == Init /\ [][NextConc]_vars

(***************************************************************************)
(* Key management of auth.py, for a deployment that fetches its keys from  *)
(* LICENSEMANAGER_PUBLIC_KEY_URL.  A key is represented by the name of the *)
(* key pair it belongs to: a token verifies under a key exactly if it was  *)
(* signed with that pair.                                                  *)
(***************************************************************************)
Materials == {"old", "new"}
Kids == {"kid1"}

JwksOf(kid, m) == [q \in {kid} |-> m]

\* What the endpoint may answer to client.get(public_key_url):
\*   pem        a PEM key
\*   jwks       a JWKS document whose keys with kid and x5c are doc.keys
\*   malformed  JSON that json.loads accepts but whose "keys" cannot be
\*              walked as a list of objects ("keys": null, a string as
\*              element, ...)
\*   bad_json   text that starts with "{" and is not JSON
\*   http_error an error status, or no answer at all
Documents ==
  {[kind |-> "pem", m |-> m, keys |-> NoKeys] : m \in Materials}
  \cup {[kind |-> "jwks", m |-> "none", keys |-> ks] :
          ks \in {NoKeys} \cup {JwksOf(kid, m) : kid \in Kids, m \in Materials}}
  \cup {[kind |-> k, m |-> "none", keys |-> NoKeys] :
          k \in {"malformed", "bad_json", "http_error"}}

\* _fetch_keys with _parse_jwks: the cache after the call and whether the
\* call returned (ok) or raised.  _parse_jwks clears _keys after
\* json.loads and before it walks the keys.
fetch_keys(doc) ==
  CASE doc.kind = "pem" ->
         [ok |-> TRUE, key_type |-> "pem", keys |-> keys,
          single_key |-> Some(doc.m)]
    [] doc.kind = "jwks" ->
         [ok |-> TRUE, key_type |-> "jwks", keys |-> doc.keys,
          single_key |-> single_key]
    [] doc.kind = "malformed" ->
         [ok |-> FALSE, key_type |-> key_type, keys |-> NoKeys,
          single_key |-> single_key]
    [] OTHER ->
         [ok |-> FALSE, key_type |-> key_type, keys |-> keys,
          single_key |-> single_key]

\* the cache is set to what fetch_keys left
Cached(r) ==
  /\ key_type' = r.key_type
  /\ keys' = r.keys
  /\ single_key' = r.single_key

\* _get_cached_key(kid) on a cache (kt, ks, sk): the key, or None
get_cached_key(kt, ks, sk, kid) ==
  IF kt = "jwks"
  THEN IF kid # None /\ TheVal(kid) \in DOMAIN ks THEN Some(ks[TheVal(kid)])
       ELSE IF kid = None /\ DOMAIN ks # {}
            THEN Some(ks[CHOOSE q \in DOMAIN ks : TRUE])
            ELSE None
  ELSE IF kt = "pem" THEN sk
  ELSE None

\* tokens with algorithm RS256 and all required claims: an optional kid in
\* the header and the key pair of the signature
SignedTokens == [kid : {None} \cup {Some(q) : q \in Kids}, signed : Materials]

\* the call p ends with the given status; finally: _retry_attempted = False
Finish(p, v, code) ==
  /\ validations' = [validations EXCEPT
                       ![p] = [v EXCEPT !.pc = "done", !.result = code]]
  /\ retry_attempted' = FALSE

\* the first jwt.decode of call p under key, and the handler of
\* jwt.InvalidSignatureError up to its await of _fetch_keys
Decode(p, v, key) ==
  IF key = v.signed THEN Finish(p, v, 200)
  ELSE IF ~retry_attempted
  THEN /\ validations' = [validations EXCEPT
                            ![p] = [v EXCEPT !.pc = "retry_fetch",
                                             !.first_failed = TRUE,
                                             !.retried = v.retried + 1]]
       /\ retry_attempted' = TRUE
  ELSE Finish(p, [v EXCEPT !.first_failed = TRUE], 401)

\* validate_token(token) up to its first await that suspends: the key is
\* taken from the cache, or get_keys_with_retry awaits _fetch_keys
ValidateBegin(p) ==
  \E t \in SignedTokens :
    /\ validations[p].pc = "idle"
    /\ LET v   == [IdleValidation EXCEPT !.kid = t.kid, !.signed = t.signed]
           key == get_cached_key(key_type, keys, single_key, t.kid)
       IN  IF key = None
           THEN /\ validations' = [validations EXCEPT
                                     ![p] = [v EXCEPT !.pc = "miss_fetch"]]
                /\ UNCHANGED retry_attempted
           ELSE Decode(p, v, TheVal(key))
    /\ UNCHANGED <<key_type, keys, single_key, refresh_task, tasks, lifespan,
                   health, sessions, committed, store, ingestion>>

\* get_keys_with_retry: _fetch_keys has answered; a failure or a key still
\* missing is an HTTPException, which except Exception turns into 500
ValidateMissFetched(p) ==
  \E doc \in Documents :
    LET v   == validations[p]
        r   == fetch_keys(doc)
        key == get_cached_key(r.key_type, r.keys, r.single_key, v.kid)
    IN  /\ v.pc = "miss_fetch"
        /\ Cached(r)
        /\ IF ~r.ok \/ key = None THEN Finish(p, v, 500)
           ELSE Decode(p, v, TheVal(key))
        /\ UNCHANGED <<refresh_task, tasks, lifespan, health, sessions,
                       committed, store, ingestion>>

\* the retry: _fetch_keys has answered; the key is looked up again and the
\* token verified a second time.  A key missing after the refresh makes
\* get_keys_with_retry fetch once more.
ValidateRetryFetched(p) ==
  \E doc \in Documents :
    LET v   == validations[p]
        r   == fetch_keys(doc)
        key == get_cached_key(r.key_type, r.keys, r.single_key, v.kid)
    IN  /\ v.pc \in {"retry_fetch", "retry_miss"}
        /\ Cached(r)
        /\ IF ~r.ok THEN Finish(p, v, 401)
           ELSE IF key = None
           THEN IF v.pc = "retry_miss" THEN Finish(p, v, 401)
                ELSE /\ validations' = [validations EXCEPT
                                          ![p].pc = "retry_miss"]
                     /\ UNCHANGED retry_attempted
           ELSE Finish(p, v, IF TheVal(key) = v.signed THEN 200 ELSE 401)
        /\ UNCHANGED <<refresh_task, tasks, lifespan, health, sessions,
                       committed, store, ingestion>>

\* the caller has the answer of call p
ValidateReturn(p) ==
  /\ validations[p].pc = "done"
  /\ validations' = [validations EXCEPT ![p] = IdleValidation]
  /\ UNCHANGED <<key_type, keys, single_key, retry_attempted, refresh_task,
                 tasks, lifespan, health, sessions, committed, store,
                 ingestion>>

(***************************************************************************)
(* The refresh task and the hooks that start and stop it.                  *)
(***************************************************************************)
Alive(id) == tasks[id].pc \in {"sleeping", "fetching"}

\* the next task asyncio.create_task creates
NewTask == CHOOSE id \in TaskIds :
             tasks[id].pc = "unborn" /\ \A j \in 1..(id - 1) : tasks[j].pc # "unborn"

Created == [pc |-> "sleeping", must_cancel |-> FALSE, last |-> "none"]

\* variant: a task is created whether or not one is alive
start_background_refreshAlways ==
  /\ refresh_task' = NewTask
  /\ tasks' = [tasks EXCEPT ![NewTask] = Created]

\* start_background_refresh: there is no await between the test and
\* create_task
start_background_refresh ==
  IF refresh_task = 0 \/ tasks[refresh_task].pc = "done"
  THEN /\ refresh_task' = NewTask
       /\ tasks' = [tasks EXCEPT ![NewTask] = Created]
  ELSE UNCHANGED <<refresh_task, tasks>>

\* the startup hook begins: await jwt_auth._fetch_keys()
StartupBegin ==
  /\ lifespan.pc \in {"down", "up"}
  /\ \E id \in TaskIds : tasks[id].pc = "unborn"
  /\ lifespan' = [lifespan EXCEPT !.pc = "starting"]
  /\ UNCHANGED <<key_type, keys, single_key, retry_attempted, refresh_task,
                 tasks, validations, health, sessions, committed, store,
                 ingestion>>

\* the rest of the startup hook: start_background_refresh is called if
\* _fetch_keys returned and skipped if it raised
StartupFetched ==
  \E doc \in Documents :
    LET r == fetch_keys(doc)
    IN  /\ lifespan.pc = "starting"
        /\ Cached(r)
        /\ IF r.ok
           THEN /\ start_background_refresh
                /\ lifespan' = [pc |-> "up", started |-> TRUE]
           ELSE /\ UNCHANGED <<refresh_task, tasks>>
                /\ lifespan' = [lifespan EXCEPT !.pc = "up"]
        /\ UNCHANGED <<retry_attempted, validations, health, sessions,
                       committed, store, ingestion>>

\* the shutdown hook: stop_background_refresh up to await self._refresh_task
ShutdownBegin ==
  /\ lifespan.pc = "up"
  /\ IF refresh_task # 0 /\ tasks[refresh_task].pc # "done"
     THEN /\ tasks' = [tasks EXCEPT ![refresh_task].must_cancel = TRUE]
          /\ lifespan' = [pc |-> "stopping", started |-> FALSE]
     ELSE /\ UNCHANGED tasks
          /\ lifespan' = [pc |-> "down", started |-> FALSE]
  /\ UNCHANGED <<key_type, keys, single_key, retry_attempted, refresh_task,
                 validations, health, sessions, committed, store, ingestion>>

\* the awaited task has ended: stop_background_refresh returns
ShutdownEnd ==
  /\ lifespan.pc = "stopping"
  /\ tasks[refresh_task].pc = "done"
  /\ lifespan' = [lifespan EXCEPT !.pc = "down"]
  /\ UNCHANGED <<key_type, keys, single_key, retry_attempted, refresh_task,
                 tasks, validations, health, sessions, committed, store,
                 ingestion>>

\* _background_refresh_loop: asyncio.sleep is over, _fetch_keys is awaited
LoopWake(id) ==
  /\ tasks[id].pc = "sleeping"
  /\ ~tasks[id].must_cancel
  /\ tasks' = [tasks EXCEPT ![id].pc = "fetching"]
  /\ UNCHANGED <<key_type, keys, single_key, retry_attempted, refresh_task,
                 lifespan, validations, health, sessions, committed, store,
                 ingestion>>

\* _fetch_keys has answered the loop: success is logged, an Exception is
\* logged and the loop goes on
LoopFetched(id) ==
  \E doc \in Documents :
    LET r == fetch_keys(doc)
    IN  /\ tasks[id].pc = "fetching"
        /\ ~tasks[id].must_cancel
        /\ Cached(r)
        /\ tasks' = [tasks EXCEPT ![id].pc = "sleeping",
                                  ![id].last = IF r.ok THEN "ok" ELSE "failed"]
        /\ UNCHANGED <<retry_attempted, refresh_task, lifespan, validations,
                       health, sessions, committed, store, ingestion>>

\* task.cancel() has been called: CancelledError is raised at the await
\* the loop is suspended in, and except asyncio.CancelledError: break
LoopCancelled(id) ==
  /\ Alive(id)
  /\ tasks[id].must_cancel
  /\ tasks' = [tasks EXCEPT ![id].pc = "done"]
  /\ UNCHANGED <<key_type, keys, single_key, retry_attempted, refresh_task,
                 lifespan, validations, health, sessions, committed, store,
                 ingestion>>

(***************************************************************************)
(* GET /health                                                             *)
(***************************************************************************)
\* get_health_status(): the entries of the dict that depend on the cache
get_health_status ==
  [key_loaded |-> (keys # NoKeys \/ single_key # None),
   key_type   |-> key_type,
   keys_count |-> IF key_type = "jwks" THEN Cardinality(DOMAIN keys)
                  ELSE IF single_key # None THEN 1 ELSE 0]

\* health up to await session.execute
HealthBegin(h) ==
  /\ health[h].pc = "idle"
  /\ health' = [health EXCEPT ![h].pc = "querying"]
  /\ UNCHANGED <<auth, sessions, committed, store, ingestion>>

\* the rest of health.  The query raises or returns; then
\* auth_health["keys_loaded"] is read from the dict of get_health_status,
\* and a key the dict does not have is a KeyError.  Either exception is
\* caught and reported as status "error"; the dict is returned with HTTP
\* status 200 in every case.
HealthAnswer(h) ==
  \E db_ok \in BOOLEAN :
    LET auth_health == get_health_status
        raised == ~db_ok \/ "keys_loaded" \notin DOMAIN auth_health
                         \/ "key_type" \notin DOMAIN auth_health
    IN  /\ health[h].pc = "querying"
        /\ health' = [health EXCEPT ![h] =
              [pc |-> IF db_ok THEN "answered" ELSE "answered_db_failed",
               status |-> IF raised THEN "error" ELSE "ok",
               code |-> 200]]
        /\ UNCHANGED <<auth, sessions, committed, store, ingestion>>

\* the client has the answer
HealthReturn(h) ==
  /\ health[h].pc \in {"answered", "answered_db_failed"}
  /\ health' = [health EXCEPT ![h] = IdleProbe]
  /\ UNCHANGED <<auth, sessions, committed, store, ingestion>>

\* Seventh specification: calls of validate_token while the keys change
NextAuth ==
  \/ StartupBegin
  \/ StartupFetched
  \/ \E p \in Callers :
       \/ ValidateBegin(p)
       \/ ValidateMissFetched(p)
       \/ ValidateRetryFetched(p)
       \/ ValidateReturn(p)

SpecAuth == Init /\ [][NextAuth]_vars

\* Eighth specification: the refresh task from startup to shutdown
NextRefresh ==
  \/ StartupBegin
  \/ StartupFetched
  \/ ShutdownBegin
  \/ ShutdownEnd
  \/ \E id \in TaskIds :
       \/ LoopWake(id)
       \/ LoopFetched(id)
       \/ LoopCancelled(id)

SpecRefresh == Init /\ [][NextRefresh]_vars

\* The event loop runs every task that can run: a sleep ends, the HTTP
\* client answers or times out, and a cancelled task is resumed.
SpecRefreshFair ==
  /\ Init /\ [][NextRefresh]_vars
  /\ \A id \in TaskIds :
       /\ WF_vars(LoopWake(id))
       /\ WF_vars(LoopFetched(id))
       /\ WF_vars(LoopCancelled(id))

\* Ninth specification: health requests of a running application
NextHealth ==
  \/ StartupBegin
  \/ StartupFetched
  \/ \E h \in Probes :
       \/ HealthBegin(h)
       \/ HealthAnswer(h)
       \/ HealthReturn(h)

SpecHealth == Init /\ [][NextHealth]_vars

(***************************************************************************)
(* Properties                                                              *)
(***************************************************************************)
Rep == TheVal(report)
V == Len(valid_records)
ValidCodes == {valid_records[k].SBLS : k \in 1..V}

RECURSIVE ApplyBatches(_, _, _)
ApplyBatches(st, batches, n) ==
  IF n = 0 THEN st
  ELSE Upsert(ApplyBatches(st, batches, n - 1), batches[n])

RECURSIVE Flatten(_)
Flatten(ss) == IF ss = <<>> THEN <<>> ELSE Head(ss) \o Flatten(Tail(ss))

RECURSIVE SumOf(_, _)
SumOf(pairs, j) ==
  IF pairs = <<>> THEN 0 ELSE Head(pairs)[j] + SumOf(Tail(pairs), j)

\* C1: after a file with at least one valid row has been ingested through
\* PUT /admin/bls-dataset, the stored codes are exactly the codes of the
\* valid rows of that file (nothing of an earlier file survives).
C1_FullReplaceExact ==
  (pc = "returned" /\ V > 0) => DOMAIN store = ValidCodes

\* C2: in every report, added is the number of applied rows whose code was
\* not stored before the call and updated the number of those whose code
\* was stored.
C2_AddedUpdatedSplit ==
  (pc = "returned") =>
     /\ Rep.added =
          Cardinality({k \in 1..V : valid_records[k].SBLS \notin DOMAIN storeBefore})
     /\ Rep.updated =
          Cardinality({k \in 1..V : valid_records[k].SBLS \in DOMAIN storeBefore})

\* C3: ingesting the identical file again after it was ingested reports
\* added = 0 and updated = N, N the number of its valid rows, whose codes
\* are all stored already.
C3_ReingestCounts ==
  (pc = "returned" /\ same) =>
     /\ Rep.added = 0
     /\ Rep.updated = V
     /\ ValidCodes \subseteq DOMAIN storeBefore

C3_Witness ==
  pc = "returned" /\ same /\ V = 3 /\ Len(calls) = 2 /\ Rep.updated = 3

\* C4: ingesting a file a second time right after its ingestion returned
\* leaves the table as it was (same codes, same values) and reports the
\* same failed count.
C4_ReingestIdempotent ==
  (pc = "returned" /\ same) =>
     /\ store = storeBefore
     /\ Rep.failed = prevFailed

C4_Witness ==
  /\ pc = "returned" /\ same
  /\ V = 2
  /\ Cardinality(DOMAIN store) = 2
  /\ Rep.failed = 1

\* C5: at every point of an ingestion the table is the table at the start
\* of the call with exactly the committed batches applied: a batch that
\* failed (or was cut off by a cancellation) left nothing, and the batches
\* committed before it stay.
C5_BatchAtomicity ==
  (pc # "idle") => store = ApplyBatches(storeBefore, calls, Len(results))

C5_Witness ==
  /\ pc = "raised"
  /\ Len(results) = 1 /\ Len(calls) = 2
  /\ store # storeBefore
  /\ calls[1][1].SBLS \in DOMAIN store \ DOMAIN storeBefore

C7_ReportTruncation ==
  (pc = "returned") =>
     LET df  == DropEmptyRows(file)
         bad == {k \in 1..Len(df.rows) : ~ValidateRow(df.rows[k], df.hdr, k).ok}
     IN  /\ Rep.failed = Cardinality(bad)
         /\ Rep.failed = Len(df.rows) - V
         /\ Len(Rep.errors) = Min(ErrLimit, Rep.failed)
         /\ \A j \in 1..Len(Rep.errors) :
              /\ Rep.errors[j].row \in bad
              /\ Cardinality({b \in bad : b <= Rep.errors[j].row}) = j

\* a truncated report on the path with valid rows ...
C7_Witness ==
  /\ pc = "returned" /\ V > 0
  /\ Rep.failed > ErrLimit
  /\ Len(Rep.errors) = ErrLimit

\* ... and on the path without a valid row
C7_WitnessNoValidRow ==
  /\ pc = "returned" /\ V = 0
  /\ Rep.failed > ErrLimit
  /\ Len(Rep.errors) = ErrLimit

\* C8: the batch applier is called with consecutive non-empty slices of at
\* most batch_size valid rows, in file order, every valid row in exactly
\* one slice, and added/updated are the sums of the per-batch results.
C8_Batching ==
  /\ \A n \in 1..Len(calls) : Len(calls[n]) >= 1 /\ Len(calls[n]) <= batch_size
  /\ Len(Flatten(calls)) <= V
  /\ Flatten(calls) = SubSeq(valid_records, 1, Len(Flatten(calls)))
  /\ \A n \in 1..(Len(calls) - 1) : Len(calls[n]) = batch_size
  /\ (pc = "returned" /\ V > 0) =>
        /\ Flatten(calls) = valid_records
        /\ (Len(calls) - 1) * batch_size < V
        /\ V <= Len(calls) * batch_size
        /\ Rep.added = SumOf(results, 1)
        /\ Rep.updated = SumOf(results, 2)
        /\ Rep.added + Rep.updated = V

C8_Witness ==
  /\ pc = "returned"
  /\ Len(calls) = 2
  /\ Len(calls[1]) = batch_size /\ Len(calls[2]) = 1

\* the identifier grammar of the claim: one letter B..Y, six ASCII digits
IdentifierGrammar(s) ==
  /\ Len(s) = 7
  /\ s[1] \in LettersBY
  /\ \A k \in 2..7 : s[k] \in AsciiDigits

\* C9: validation accepts the (trimmed) identifier of a row iff it matches
\* the grammar; every other identifier gives the row an invalid-identifier
\* error, and the row never reaches the table.
C9_IdentifierGrammar ==
  (pc # "idle") =>
     LET df == DropEmptyRows(file)
     IN  \A k \in 1..Len(df.rows) :
           LET id == strip(df.rows[k].SBLS)
               rejected == \E j \in 1..Len(errors) :
                              /\ errors[j].row = k
                              /\ errors[j].msg = "Invalid BLS number"
           IN  /\ IdentifierGrammar(id) <=> ~rejected
               /\ ~IdentifierGrammar(id) => id \notin DOMAIN store

\* the primary name of a row is absent or empty after trimming
NameMissing(row, hdr) == "ST" \notin hdr \/ strip(row.ST) = <<>>

\* C10: every row without a primary name is rejected with a row error
\* (whatever else it carries) and is not among the valid records.
C10_MissingNameRejected ==
  (pc # "idle" /\ "SBLS" \in file.hdr) =>
     LET df == DropEmptyRows(file)
     IN  /\ \A k \in 1..Len(df.rows) :
               NameMissing(df.rows[k], df.hdr) =>
                  \E j \in 1..Len(errors) : errors[j].row = k
         /\ \A k \in 1..V : valid_records[k].ST # None

C12_DecimalNormalization ==
  (pc # "idle" /\ Len(file.rows) = 1) =>
     \A x \in NumberForms :
        FmtNumber(x[1].d, x[2].d, x[3]) = strip(file.rows[1].GCAL) =>
           /\ V = 1
           /\ valid_records[1].GCAL = Some(x[1].n * 1000 + x[2].m)
           /\ (pc = "returned") =>
                 store[Code1].GCAL = Some(x[1].n * 1000 + x[2].m)

C12_Witness ==
  /\ pc = "returned"
  /\ file.rows[1].GCAL = <<"1", ".", "2", "3", "4", ",", "5", "6">>
  /\ store[Code1].GCAL = Some(1234560)

\* C13: if the table holds a value for field F of code C and no row of the
\* upload for C supplies F, then C still has that value after the
\* ingestion - also when other rows of the same batch supply column F.
C13_UnsuppliedPreserved ==
  (pc = "returned") =>
     \A c \in DOMAIN storeBefore \cap ValidCodes : \A F \in DataColumns :
        (\A k \in 1..V : valid_records[k].SBLS = c => valid_records[k][F] = None)
           => store[c][F] = storeBefore[c][F]

\* the last valid record of the upload for code c
LastOccurrence(c) ==
  valid_records[CHOOSE k \in 1..V :
                  /\ valid_records[k].SBLS = c
                  /\ \A j \in (k + 1)..V : valid_records[j].SBLS # c]

\* C14: validation keeps every occurrence of a code, in file order and
\* without an error; unless the store fails for a reason of its own or the
\* request is cancelled, the ingestion returns a report and the stored
\* record holds the values of the last occurrence of each code, whether
\* the occurrences fall in one batch or in different batches.
C14_DuplicatesLastWins ==
  (pc # "idle" /\ \A k \in 1..Len(file.rows) : file.rows[k] \in FrameRows) =>
     /\ errors = <<>>
     /\ V = Len(file.rows)
     /\ \A k \in 1..V : valid_records[k].SBLS = file.rows[k].SBLS
     /\ (Finished /\ pc # "cancelled" /\ ~fault_seen) =>
           /\ pc = "returned"
           /\ \A c \in ValidCodes : \A F \in Keys(LastOccurrence(c)) \ {"SBLS"} :
                 store[c][F] = LastOccurrence(c)[F]

\* the n-th element of a set of numbers, counted from the smallest
Nth(S, n) == CHOOSE k \in S : Cardinality({m \in S : m <= k}) = n

\* positions (1-based, among the data rows of the uploaded file) of the
\* rows that are validated, i.e. whose identifier cell is not empty
KeptPositions(rows) ==
  {k \in 1..Len(rows) : ~(isna(rows[k].SBLS) \/ strip(rows[k].SBLS) = <<>>)}

\* C15: the row number of every row error is the 1-based line number of
\* the row in the uploaded file, the header being line 1 - also when
\* earlier rows have an empty identifier cell.
C15_ErrorRowIsFileLine ==
  (pc # "idle") =>
     LET df   == DropEmptyRows(file)
         bad  == {n \in 1..Len(df.rows) : ~ValidateRow(df.rows[n], df.hdr, n).ok}
         kept == KeptPositions(file.rows)
     IN  \A j \in 1..Len(errors) :
           errors[j].row = Nth(kept, Nth(bad, j)) + 1

\* C16: a file read as a single unknown column (another delimiter) ends
\* with a report in which every data row is failed with a missing-name
\* error and added is 0; nothing is written.
C16_WrongDelimiterReport ==
  (pc # "idle" /\ file.hdr = {}) =>
     /\ pc = "returned"
     /\ Rep.added = 0
     /\ Rep.failed = Len(file.rows)
     /\ \A j \in 1..Len(Rep.errors) : Rep.errors[j].msg = "Missing name"
     /\ store = storeBefore

\* the upload is empty, larger than the limit, or not named *.txt
Structural(rq) ==
  \/ rq.size = 0
  \/ rq.size > 200 * 1024 * 1024
  \/ Len(rq.filename) < 4
  \/ SubSeq(rq.filename, Len(rq.filename) - 3, Len(rq.filename))
       # <<".", "t", "x", "t">>

\* C17: an upload that is empty, too large or not named *.txt fails the
\* whole call with one error: no report, no row validated, no statement
\* issued, the table unchanged.  The file type and size checks come before
\* the content is read: a wrong name gives 400 and a too large file with a
\* good name gives 413 whatever the content is.
C17_StructuralErrorsFatal ==
  (pc # "idle" /\ Structural(request)) =>
     /\ pc = "raised"
     /\ report = None
     /\ status \in {400, 401, 403, 413, 500}
     /\ valid_records = <<>> /\ errors = <<>> /\ calls = <<>>
     /\ store = storeBefore /\ tx = None
     /\ (require_admin(request) = 200) =>
           /\ ~IsTxt(request.filename) => status = 400
           /\ (IsTxt(request.filename) /\ request.size > MAX_UPLOAD)
                 => status = 413

C17_Witness ==
  /\ pc = "raised" /\ status = 413
  /\ request.size = MAX_UPLOAD + 1
  /\ file.rows # <<>> /\ "SBLS" \in file.hdr
  /\ store # EmptyStore /\ store = storeBefore

\* the tokens extract_token_from_request can find in a request
Carried(rq) ==
  rq.cookie \cup
  {a.token : a \in {h \in rq.authorization : h.scheme = "Bearer"}}

\* the token validates: RS256, accepted by jwt.decode, with a subject
TokenValid(t) == t.alg = "RS256" /\ t.decode = "ok" /\ t.sub # None

HasAdminRole(t) == "Admin" \in t.roles \/ "Super Admin" \in t.roles

\* upload_data was entered in the current request
ReachedUploadData ==
  pc \in {"execute", "commit", "rollback", "returned", "cancelling",
          "cancelled"}
  \/ (pc = "raised" /\ calls # <<>>)

\* C18: outside development, upload_data is reached only by a request
\* carrying a token that validates and has the role Admin or Super Admin;
\* a request without a token gets 401, a request whose tokens validate but
\* lack both roles gets 403, and in both cases the table is unchanged.
C18_AdminGate ==
  (pc # "idle" /\ request.ENVIRONMENT # Some("development")) =>
     /\ ReachedUploadData =>
           \E t \in Carried(request) : TokenValid(t) /\ HasAdminRole(t)
     /\ Carried(request) = {} =>
           pc = "raised" /\ status = 401 /\ store = storeBefore
     /\ (/\ Carried(request) # {}
         /\ \A t \in Carried(request) : TokenValid(t) /\ ~HasAdminRole(t)) =>
           pc = "raised" /\ status = 403 /\ store = storeBefore

C18_Witness ==
  /\ pc = "raised" /\ status = 403
  /\ request.ENVIRONMENT = Some("production")
  /\ request.cookie = Some(TokReader)
  /\ IsTxt(request.filename) /\ request.size = 1 /\ file.rows # <<>>
  /\ store # EmptyStore /\ store = storeBefore

\* C19: at every moment every stored record has a code of one letter B..Y
\* and six digits, a non-empty primary name and no negative nutrient value.
C19_StoreInvariant ==
  \A c \in DOMAIN store :
     /\ IdentifierGrammar(c)
     /\ store[c].ST # None
     /\ TheVal(store[c].ST) # <<>>
     /\ store[c].GCAL # None => TheVal(store[c].GCAL) >= 0

\* a batch with a nameless record was refused while the table holds rows
C19_Witness ==
  /\ pc = "raised" /\ ~fault_seen
  /\ \E k \in 1..V : valid_records[k].ST = None
  /\ Cardinality(DOMAIN store) = 2

\* C20: in every report added + updated + failed is the number of data
\* rows of the uploaded file: every data row is counted once, a row with an
\* empty identifier cell among the failed ones.
C20_AccountingReconciles ==
  (pc = "returned") =>
     /\ Rep.added + Rep.updated + Rep.failed = Len(file.rows)
     /\ Rep.failed >= Len(file.rows) - Cardinality(KeptPositions(file.rows))

\* str.upper() on the letters of the model
UpperChar(ch) ==
  CASE ch = "b" -> "B" [] ch = "x" -> "X" [] ch = "y" -> "Y"
    [] OTHER -> ch

Upper(s) == [k \in 1..Len(s) |-> UpperChar(s[k])]

\* C21: the identifier cell is trimmed and uppercased before it is matched:
\* a row whose cell matches the grammar after trimming and uppercasing is
\* accepted without error and stored under the uppercased code.
C21_IdentifierNormalized ==
  (pc # "idle" /\ Len(file.rows) = 1) =>
     LET norm == Upper(strip(file.rows[1].SBLS))
     IN  IdentifierGrammar(norm) =>
           /\ errors = <<>>
           /\ V = 1
           /\ valid_records[1].SBLS = norm
           /\ (pc = "returned") => norm \in DOMAIN store

\* C22: at every point of an ingestion, every record whose code was stored
\* before the call and occurs in no valid row of the file is still stored
\* and equal, field by field, to what it was.
C22_OtherRecordsUntouched ==
  (pc # "idle") =>
     \A c \in DOMAIN storeBefore \ ValidCodes :
        c \in DOMAIN store /\ store[c] = storeBefore[c]

C22_Witness ==
  /\ pc = "returned" /\ V > 0
  /\ store # storeBefore
  /\ \E c \in DOMAIN storeBefore \ ValidCodes : store[c] = storeBefore[c]

\* C23: in the report of PUT /admin/bls-dataset updated is 0 and added is
\* the number of rows applied.
C23_FullReplaceCounts ==
  (pc = "returned") => Rep.updated = 0 /\ Rep.added = V

\* a row the pipeline is to reject: no identifier of the grammar, or no name
InvalidRow(row, hdr) ==
  ~IdentifierGrammar(strip(row.SBLS)) \/ NameMissing(row, hdr)

\* C24: unless the store fails for a reason of its own or the request is
\* cancelled, a file that was parsed ends with a report: failed is the
\* number of its invalid rows, every valid row is in the table, and no
\* invalid row is among the applied records.
C24_RowFailuresNeverAbort ==
  (Finished /\ pc # "cancelled" /\ ~fault_seen /\ "SBLS" \in file.hdr) =>
     LET bad == {k \in 1..Len(file.rows) : InvalidRow(file.rows[k], file.hdr)}
     IN  /\ pc = "returned"
         /\ Rep.failed = Cardinality(bad)
         /\ V = Len(file.rows) - Cardinality(bad)
         /\ \A k \in 1..Len(file.rows) :
              k \notin bad => strip(file.rows[k].SBLS) \in DOMAIN store


(***************************************************************************)
(* Transactions of the batches of one request.                             *)
(***************************************************************************)
\* the call of upload_data is over: it returned, raised, or was cancelled
UploadDataLeft == pc \in {"returned", "raised", "cancelling", "cancelled"}

\* the transaction of a batch is ended before any statement of the next
\* batch is issued, and no batch is attempted after one that failed: every
\* batch passed on but the last has returned its counts
BatchesInTurn ==
  /\ (pc = "execute") => (~in_transaction /\ tx = None)
  /\ Len(calls) - Len(results) \in {0, 1}
  /\ (pc \in {"execute", "returned"}) => Len(calls) = Len(results)
  /\ (pc = "raised" /\ calls # <<>>) => Len(calls) = Len(results) + 1

\* C26 as stated: the transaction of batch i is ended before any statement
\* of batch i + 1, no batch is attempted after a failed one, and no
\* transaction is open once upload_data has returned or raised - whichever
\* way the call was left
C26_TransactionOrdering ==
  /\ BatchesInTurn
  /\ UploadDataLeft => ~in_transaction

\* C26 amended: the batches take their transactions in turn, and no
\* transaction is open when upload_data returns its report or raises an
\* Exception; a call ended by cancellation leaves its transaction open
\* until get_session closes the session
C26_TransactionOrderingAmended ==
  /\ BatchesInTurn
  /\ (pc \in {"returned", "raised", "cancelled"}) => ~in_transaction

\* a second batch has been executed past the committed first one, and a
\* failed batch has been rolled back
C26_Witness ==
  \/ pc = "commit" /\ Len(results) = 1 /\ in_transaction
  \/ pc = "raised" /\ Len(calls) = 2 /\ Len(results) = 1



(***************************************************************************)
(* Concurrent ingestion.                                                   *)
(***************************************************************************)
\* the codes of a batch
CodesOf(batch) == {batch[k].SBLS : k \in 1..Len(batch)}

\* C27: with two requests ingesting at the same time the table always
\* equals the committed batches applied one after another in the order of
\* their commits - so each batch is applied as a whole or not at all, no
\* committed batch is lost, and no row mixes values of two batches; rows
\* written by an open transaction are in nobody else's transaction, and
\* nothing of a batch is in the table before its commit.
C27_ConcurrentSerial ==
  /\ store = ApplyBatches(EmptyStore, committed, Len(committed))
  /\ \A s, t \in Sessions :
       s # t => DOMAIN sessions[s].writes \cap DOMAIN sessions[t].writes = {}
  /\ \A s \in Sessions :
       sessions[s].pc = "returned" =>
          \A k \in 1..Len(sessions[s].valid_records) :
             sessions[s].valid_records[k].SBLS \in DOMAIN store

\* both requests have returned after committing rows for a common code,
\* one of them in more than one batch
C27_Witness ==
  /\ Len(committed) >= 2
  /\ \E s, t \in Sessions :
       /\ s # t
       /\ sessions[s].pc = "returned" /\ sessions[t].pc = "returned"
       /\ CodesOf(sessions[s].valid_records)
            \cap CodesOf(sessions[t].valid_records) # {}
       /\ Len(sessions[s].valid_records) > batch_size



(***************************************************************************)
(* Health, token validation and key refresh.                               *)
(***************************************************************************)
\* C25: a request GET /health whose database query succeeded is answered
\* with HTTP status 200 and status "ok" - with or without keys loaded, and
\* with another health request in progress; status "error" is answered
\* only when the database check failed.
C25_HealthOk ==
  \A h \in Probes :
    /\ health[h].pc = "answered" =>
         (health[h].code = 200 /\ health[h].status = "ok")
    /\ health[h].status = "error" => health[h].pc = "answered_db_failed"

\* C28: a call of validate_token whose first signature check failed has
\* fetched the keys for a retry before it rejects the token, whatever other
\* calls are in progress, and no call retries more than once.
C28_RefreshThenRetry ==
  \A p \in Callers :
    /\ validations[p].retried <= 1
    /\ (validations[p].pc = "done" /\ validations[p].first_failed) =>
          validations[p].retried = 1

\* the tasks that have been created and have not ended
AliveTasks == {id \in TaskIds : Alive(id)}

\* C29: at most one refresh task is alive, and it is the one
\* _refresh_task refers to; after start_background_refresh has been called
\* there is exactly one, however often it was called; once
\* stop_background_refresh has returned there is none.
C29_SingleRefreshTask ==
  /\ Cardinality(AliveTasks) <= 1
  /\ AliveTasks \subseteq {refresh_task}
  /\ (lifespan.started /\ lifespan.pc = "up") => Cardinality(AliveTasks) = 1
  /\ lifespan.pc = "down" => AliveTasks = {}

\* the hooks have stopped the first task and started a second, which has
\* been through a refresh
C29_Witness ==
  /\ lifespan.pc = "up" /\ lifespan.started
  /\ refresh_task = 2
  /\ tasks[1].pc = "done"
  /\ tasks[2].last # "none"
  /\ tasks[3].pc = "unborn"

\* a key of the cache that verifies tokens of key pair m
Usable(m) ==
  \/ key_type = "jwks" /\ \E q \in DOMAIN keys : keys[q] = m
  \/ key_type = "pem" /\ single_key = Some(m)

\* the loop of task id gets the failure of its _fetch_keys in this step
LoopFetchFails(id) ==
  /\ tasks[id].pc = "fetching"
  /\ tasks'[id].pc = "sleeping"
  /\ tasks'[id].last = "failed"

\* a refresh task that is not cancelled attempts a refresh after every
\* interval, whatever the refresh before did
RefreshAttempted ==
  \A id \in TaskIds :
    (tasks[id].pc = "sleeping" /\ ~tasks[id].must_cancel)
       ~> (tasks[id].pc = "fetching" \/ tasks[id].must_cancel)

\* a cancelled task ends
CancelledEnds ==
  \A id \in TaskIds : tasks[id].must_cancel ~> (tasks[id].pc = "done")

\* a cancelled task starts no refresh
CancelledFetchesNoMore ==
  [][\A id \in TaskIds :
       (tasks[id].must_cancel /\ tasks[id].pc # "fetching") =>
          tasks'[id].pc # "fetching"]_vars

\* C30: a refresh task that is not cancelled attempts a refresh after
\* every interval, also after a refresh that raised; a _fetch_keys that
\* fails in the loop leaves every key usable that was usable before; a
\* cancelled task ends, and starts no refresh after the cancellation.
C30_RefreshLoop ==
  /\ RefreshAttempted
  /\ CancelledEnds
  /\ CancelledFetchesNoMore
  /\ [][\A id \in TaskIds :
          LoopFetchFails(id) =>
             \A m \in Materials : Usable(m) => Usable(m)']_vars

====
